---- MODULE Spec2Model ----
(***************************************************************************)
(* Request-to-storage mapping layer of the social-posting backend          *)
(* (src/hackthon/db/main.go): the HTTP handlers loginHandler, createLike,  *)
(* createPost, createReply, getPosts and summarizeReplies, run by          *)
(* net/http as one goroutine per request against one shared MySQL store.   *)
(*                                                                         *)
(* Every db.QueryRow / db.Query / db.Exec call is one atomic statement of  *)
(* the store; a handler is a sequence of such statements, and handlers of  *)
(* different requests interleave between statements.                       *)
(***************************************************************************)
EXTENDS Integers, Sequences, FiniteSets, Bags

\* ---------------------------------------------------------------- bounds
NumProcs == 2       \* concurrent request slots (goroutines of net/http)
MaxUsers == 2       \* rows the users table may hold
MaxPosts == 2       \* rows the posts table may hold
MaxReplies == 3     \* rows the replies table may hold
MaxTime == 1        \* last value of the store's clock

Procs == 1..NumProcs

\* Request inputs (JSON payload fields and the {postId} path variable).
UIDs == {"u1", "u2"}
Profiles == {[username |-> "alice", email |-> "a@x"],
             [username |-> "bob", email |-> "b@x"]}
PostContents == {"hello"}
\* Strings that the model concatenates are sequences of characters.
ReplyContents == {<<"a">>, <<"b">>}
PostKeys == 1..MaxPosts
UserKeys == 1..MaxUsers

\* HTTP status codes used by the handlers.
StatusOK == 200
StatusCreated == 201
StatusBadRequest == 400
StatusInternalServerError == 500
StatusConflict == 409

\* A Go slice: nil (encoding/json writes null) or not (it writes an array).
NilSlice == [nil |-> TRUE, elems |-> <<>>]
Slice(s) == [nil |-> FALSE, elems |-> s]
\* append(sl, x...): appending nothing leaves the slice as it is.
AppendSlice(sl, xs) == IF xs = <<>> THEN sl ELSE Slice(sl.elems \o xs)
\* The request of handler op whose body json.Decoder cannot decode.
Malformed(op) == [op |-> op, malformed |-> TRUE]

VARIABLES
    users,      \* table users: sequence of rows, in storage (id) order
    posts,      \* table posts, likewise
    replies,    \* table replies, likewise
    likes,      \* table likes: a bag of (user_id, post_id) rows
    uidUnique,  \* whether the schema declares users.uid UNIQUE
    now,        \* the store's clock (CURRENT_TIMESTAMP of an inserted row)
    pc,         \* pc[p]: position of request p in its handler
    payload,    \* payload[p]: the decoded request of p
    local,      \* local[p]: the handler's local variables
    resp,       \* resp[p]: what p wrote to its http.ResponseWriter
    acked       \* history: <<user key, post key>> pairs whose like was answered 200

vars == <<users, posts, replies, likes, uidUnique, now, pc, payload, local, resp, acked>>
store == <<users, posts, replies, likes>>

\* ------------------------------------------------------------ the store
\* A SELECT with a WHERE clause and no ORDER BY is SelectSeq: the rows that
\* satisfy the test, in storage order, as an InnoDB table returns them.

NoRow == [err |-> "ErrNoRows"]

\* The lookup with the wrong column in its WHERE clause (email for uid).
SelectUserIDByEmail(uid) ==
    LET rows == SelectSeq(users, LAMBDA u : u.email = uid)
    IN  IF rows = <<>> THEN NoRow ELSE [err |-> "nil", id |-> rows[1].id]

\* The lookup without its WHERE clause: the first users row, whatever uid.
SelectUserIDAny(uid) ==
    IF users = <<>> THEN NoRow ELSE [err |-> "nil", id |-> users[1].id]

\* The lookup with the error of Scan dropped: no row leaves id at zero.
SelectUserIDUnchecked(uid) ==
    LET rows == SelectSeq(users, LAMBDA u : u.uid = uid)
    IN  IF rows = <<>> THEN [err |-> "nil", id |-> 0]
        ELSE [err |-> "nil", id |-> rows[1].id]

\* db.QueryRow("SELECT id FROM users WHERE uid = ?", uid).Scan(&id):
\* the first matching row, or sql.ErrNoRows.
SelectUserID(uid) ==
    LET rows == SelectSeq(users, LAMBDA u : u.uid = uid)
    IN  IF rows = <<>> THEN NoRow ELSE [err |-> "nil", id |-> rows[1].id]

\* The key AUTO_INCREMENT assigns to the next row of table t. No statement
\* deletes a row, so keys are never reused.
NextID(t) == Len(t) + 1

\* Whether INSERT INTO users is rejected as a duplicate (MySQL error 1062).
UsersDuplicate(uid) == uidUnique /\ \E i \in 1..Len(users) : users[i].uid = uid

\* The users table after INSERT INTO users (uid, username, email, created_at).
\* No statement of the program reads users.created_at; the column is left
\* out of the row.
InsertUser(uid, username, email) ==
    Append(users, [id |-> NextID(users), uid |-> uid, username |-> username,
                   email |-> email])

LikeRow(userID, postID) == [user_id |-> userID, post_id |-> postID]

\* The UNIQUE (user_id, post_id) key of likes: does the pair already exist?
LikeExists(userID, postID) == BagIn(LikeRow(userID, postID), likes)

\* INSERT INTO likes with no uniqueness check: the row is added again.
InsertLikeUnchecked(userID, postID) == likes (+) SetToBag({LikeRow(userID, postID)})

\* INSERT IGNORE against a likes table whose post_id references posts: the
\* row of a post that does not exist is dropped without an error as well.
InsertIgnoreLikeReferencing(userID, postID) ==
    IF LikeExists(userID, postID) \/ ~(\E i \in 1..Len(posts) : posts[i].id = postID)
    THEN likes
    ELSE likes (+) SetToBag({LikeRow(userID, postID)})

\* The likes table after INSERT IGNORE INTO likes (user_id, post_id): a row
\* that would duplicate the unique key is dropped without an error.
InsertIgnoreLike(userID, postID) ==
    IF LikeExists(userID, postID) THEN likes
    ELSE likes (+) SetToBag({LikeRow(userID, postID)})

\* The count without its WHERE clause: the likes of every post.
CountAllLikes(postID) == BagCardinality(likes)

\* SELECT COUNT(*) FROM likes WHERE post_id = ?
CountLikes(postID) ==
    LET rows == {l \in BagToSet(likes) : l.post_id = postID}
    IN  BagCardinality([l \in rows |-> CopiesIn(l, likes)])

\* The insert followed by an UPDATE that stamps updated_at of every post of
\* the user with the time of the new one.
InsertPostTouching(userID, content, t) ==
    Append([i \in 1..Len(posts) |->
               IF posts[i].user_id = userID
               THEN [posts[i] EXCEPT !.updated_at = t] ELSE posts[i]],
           [id |-> NextID(posts), user_id |-> userID, content |-> content,
            created_at |-> t, updated_at |-> t])

\* The posts table after INSERT INTO posts (user_id, content); created_at
\* and updated_at take the store's current timestamp t.
InsertPost(userID, content, t) ==
    Append(posts, [id |-> NextID(posts), user_id |-> userID, content |-> content,
                   created_at |-> t, updated_at |-> t])

\* ------------------------------------------------------- request slots
Idle == [op |-> "none"]
\* local[p].fault: a statement of the request failed in the store (the
\* connection broke, a row could not be scanned).
NoLocal == [fault |-> FALSE]
Faulted == [fault |-> TRUE]
\* Nothing written to the http.ResponseWriter (yet).
NoResp == [kind |-> "none", status |-> 0]
\* http.Error(w, msg, code)
Error(msg, code) == [kind |-> "error", status |-> code, body |-> msg]
\* json.NewEncoder(w).Encode(value), after WriteHeader(code) or with the
\* implicit status 200.
JSON(code, value) == [kind |-> "json", status |-> code, body |-> value]
\* w.WriteHeader(code) and no body.
Status(code) == [kind |-> "status", status |-> code]
\* The handler panicked: net/http recovers, logs and aborts the
\* connection; the caller gets no response.
Panic == [kind |-> "panic", status |-> 0]

InFlight(p) == pc[p] \notin {"idle", "done"}
Pending(at) == Cardinality({q \in Procs : pc[q] = at})

Goto(p, at) == pc' = [pc EXCEPT ![p] = at]
Respond(p, r) == resp' = [resp EXCEPT ![p] = r] /\ Goto(p, "done")
SetLocal(p, l) == local' = [local EXCEPT ![p] = l]
Received(p, body) == payload' = [payload EXCEPT ![p] = body]

Init ==
    /\ users = <<>> /\ posts = <<>> /\ replies = <<>> /\ likes = EmptyBag
    /\ uidUnique \in BOOLEAN
    /\ now = 0
    /\ pc = [p \in Procs |-> "idle"]
    /\ payload = [p \in Procs |-> Idle]
    /\ local = [p \in Procs |-> NoLocal]
    /\ resp = [p \in Procs |-> NoResp]
    /\ acked = {}

\* --------------------------------------------------------- loginHandler
LoginPayloads ==
    {[op |-> "login", uid |-> uid, username |-> pr.username, email |-> pr.email] :
        uid \in UIDs, pr \in Profiles}

\* Bodies that lack the uid field: json.Decoder reports no error for an
\* absent field and leaves the zero value "" in payload.UID.
LoginIncomplete ==
    {[op |-> "login", uid |-> "", username |-> pr.username, email |-> pr.email] :
        pr \in Profiles}

\* Decode the body (one of Bodies, or one that does not decode), then
\* SELECT id FROM users WHERE uid = ?.
LoginSelectFrom(p, Bodies) ==
    /\ pc[p] = "idle"
    /\ \E body \in Bodies, decodes \in BOOLEAN, fails \in BOOLEAN :
        IF ~decodes
        THEN /\ Received(p, Malformed("login"))
             /\ Respond(p, Error("invalid request", StatusBadRequest))
             /\ UNCHANGED local
        ELSE /\ Received(p, body)
             /\ IF fails
                THEN /\ Respond(p, Error("user lookup failed", StatusInternalServerError))
                     /\ SetLocal(p, Faulted)
                ELSE LET r == SelectUserID(body.uid)
                     IN  IF r.err = "ErrNoRows"
                         THEN /\ Len(users) + Pending("login_insert") < MaxUsers
                              /\ Goto(p, "login_insert")
                              /\ UNCHANGED <<local, resp>>
                         ELSE /\ SetLocal(p, [fault |-> FALSE, id |-> r.id])
                              /\ Respond(p, JSON(StatusOK, [user_id |-> r.id]))
    /\ UNCHANGED <<store, uidUnique, now, acked>>

LoginSelect(p) == LoginSelectFrom(p, LoginPayloads)

\* err == sql.ErrNoRows: INSERT INTO users, then res.LastInsertId().
LoginInsert(p) ==
    /\ pc[p] = "login_insert"
    /\ \E fails \in BOOLEAN :
        IF fails \/ UsersDuplicate(payload[p].uid)
        THEN /\ Respond(p, Error("user creation error", StatusInternalServerError))
             /\ SetLocal(p, [fault |-> fails])
             /\ UNCHANGED users
        ELSE /\ users' = InsertUser(payload[p].uid, payload[p].username,
                                    payload[p].email)
             /\ SetLocal(p, [fault |-> FALSE, id |-> NextID(users)])
             /\ Respond(p, JSON(StatusOK, [user_id |-> NextID(users)]))
    /\ UNCHANGED <<posts, replies, likes, uidUnique, now, payload, acked>>

\* ----------------------------------------------------------- createLike
LikePayloads == [op : {"like"}, uid : UIDs, post_id : PostKeys]

\* db.Exec("INSERT INTO likes (post_id, user_id) VALUES (?, ?)"): the unique
\* key rejects a second row for the pair with MySQL error 1062.
ExecInsertLike(userID, postID) ==
    IF LikeExists(userID, postID)
    THEN [err |-> "1062", likes |-> likes, affected |-> 0]
    ELSE [err |-> "nil", likes |-> likes (+) SetToBag({LikeRow(userID, postID)}),
          affected |-> 1]

\* db.Exec("INSERT IGNORE INTO likes (user_id, post_id) VALUES (?, ?)"): the
\* duplicate is a warning, not an error, and no row is affected.
ExecInsertIgnoreLike(userID, postID) ==
    [err |-> "nil", likes |-> InsertIgnoreLike(userID, postID),
     affected |-> IF LikeExists(userID, postID) THEN 0 ELSE 1]

\* Bodies that lack uid or post_id: the absent field decodes to "" or 0.
LikeIncomplete ==
    {b \in [op : {"like"}, uid : UIDs \cup {""}, post_id : PostKeys \cup {0}] :
        b.uid = "" \/ b.post_id = 0}

\* Decode the body, then SELECT id FROM users WHERE uid = ?. The handler
\* reads the users table and never the likes table.
CreateLikeSelectFrom(p, Bodies) ==
    /\ pc[p] = "idle"
    /\ \E body \in Bodies, decodes \in BOOLEAN, fails \in BOOLEAN :
        IF ~decodes
        THEN /\ Received(p, Malformed("like"))
             /\ Respond(p, Error("bad request", StatusBadRequest))
             /\ UNCHANGED local
        ELSE /\ Received(p, body)
             /\ LET r == SelectUserID(body.uid)
                IN  IF fails \/ r.err = "ErrNoRows"
                    THEN /\ Respond(p, Error("user id lookup error",
                                             StatusInternalServerError))
                         /\ SetLocal(p, [fault |-> fails, reads |-> {"users"}])
                    ELSE /\ SetLocal(p, [fault |-> FALSE, reads |-> {"users"},
                                         userID |-> r.id])
                         /\ Goto(p, "like_insert")
                         /\ UNCHANGED resp
    /\ UNCHANGED <<store, uidUnique, now, acked>>

CreateLikeSelect(p) == CreateLikeSelectFrom(p, LikePayloads)

\* INSERT IGNORE INTO likes (user_id, post_id), then answer 200.
CreateLikeInsert(p) ==
    /\ pc[p] = "like_insert"
    /\ \E fails \in BOOLEAN :
        LET res == ExecInsertIgnoreLike(local[p].userID, payload[p].post_id)
        IN  IF fails \/ res.err # "nil"
            THEN /\ Respond(p, Error("like creation error", StatusInternalServerError))
                 /\ SetLocal(p, [local[p] EXCEPT !.fault = fails])
                 /\ UNCHANGED <<likes, acked>>
            ELSE /\ likes' = res.likes
                 /\ acked' = acked \cup {<<local[p].userID, payload[p].post_id>>}
                 /\ SetLocal(p, [fault |-> FALSE, reads |-> local[p].reads,
                                 userID |-> local[p].userID,
                                 affected |-> res.affected])
                 /\ Respond(p, JSON(StatusOK, [message |-> "like registered"]))
    /\ UNCHANGED <<users, posts, replies, uidUnique, now, payload>>

\* ------------------------------------------- likePostHandler (part_002)
LikePostPayloads == [op : {"likePost"}, user_id : UserKeys, post_id : PostKeys]

\* Decode the body, INSERT IGNORE INTO likes (user_id, post_id) with the
\* user key the request carries, then answer 201.
LikePostHandler(p) ==
    /\ pc[p] = "idle"
    /\ \E body \in LikePostPayloads, decodes \in BOOLEAN, fails \in BOOLEAN :
        IF ~decodes
        THEN /\ Received(p, Malformed("likePost"))
             /\ Respond(p, Error("invalid input", StatusBadRequest))
             /\ UNCHANGED <<local, likes, acked>>
        ELSE /\ Received(p, body)
             /\ LET res == ExecInsertIgnoreLike(body.user_id, body.post_id)
                IN  IF fails \/ res.err # "nil"
                    THEN /\ Respond(p, Error("like failed", StatusInternalServerError))
                         /\ SetLocal(p, [fault |-> fails, reads |-> {}])
                         /\ UNCHANGED <<likes, acked>>
                    ELSE /\ likes' = res.likes
                         /\ acked' = acked \cup {<<body.user_id, body.post_id>>}
                         /\ SetLocal(p, [fault |-> FALSE, reads |-> {},
                                         userID |-> body.user_id,
                                         affected |-> res.affected])
                         /\ Respond(p, Status(StatusCreated))
    /\ UNCHANGED <<users, posts, replies, uidUnique, now>>

\* ------------------------------------------------- createLike (part_000)
LikeConflictPayloads == [op : {"likeConflict"}, user_id : UserKeys, post_id : PostKeys]

\* Every insert error answered alike, as a server error.
ConflictStatusGeneric(err) == StatusInternalServerError

\* The status for a failed insert: MySQL error 1062 (duplicate entry) is a
\* conflict, any other error a server error.
ConflictStatus(err) ==
    IF err = "1062" THEN StatusConflict ELSE StatusInternalServerError

\* Decode the Like, INSERT INTO likes (post_id, user_id) with the keys the
\* request carries, then answer with the Like. local[p].existed records
\* whether the pair had its row when the statement ran. The id and
\* created_at fields of the answer are read by no property and left out.
CreateLikeConflict(p) ==
    /\ pc[p] = "idle"
    /\ \E body \in LikeConflictPayloads, decodes \in BOOLEAN, fails \in BOOLEAN :
        IF ~decodes
        THEN /\ Received(p, Malformed("likeConflict"))
             /\ Respond(p, Error("decode error", StatusBadRequest))
             /\ UNCHANGED <<local, likes, acked>>
        ELSE /\ Received(p, body)
             /\ LET res == IF fails THEN [err |-> "other", likes |-> likes, affected |-> 0]
                           ELSE ExecInsertLike(body.user_id, body.post_id)
                    l == [fault |-> fails, reads |-> {}, userID |-> body.user_id,
                          affected |-> res.affected,
                          existed |-> LikeExists(body.user_id, body.post_id)]
                IN  IF res.err # "nil"
                    THEN /\ Respond(p, Error("insert error", ConflictStatus(res.err)))
                         /\ SetLocal(p, l)
                         /\ UNCHANGED <<likes, acked>>
                    ELSE /\ likes' = res.likes
                         /\ acked' = acked \cup {<<body.user_id, body.post_id>>}
                         /\ SetLocal(p, l)
                         /\ Respond(p, JSON(StatusOK, [post_id |-> body.post_id,
                                                       user_id |-> body.user_id]))
    /\ UNCHANGED <<users, posts, replies, uidUnique, now>>

\* ----------------------------------------------------------- createPost
PostPayloads == [op : {"post"}, uid : UIDs, content : PostContents]

\* Two successive readings of time.Now(), the clock of the server process.
ClockReadings == {r \in (0..MaxTime) \X (0..MaxTime) : r[1] <= r[2]}

\* The Post literal without its Replies field: the slice stays nil.
NewPostNilReplies(id, userID, content, t1, t2) ==
    [id |-> id, user_id |-> userID, content |-> content, likes |-> 0,
     replies |-> NilSlice, created_at |-> t1, updated_at |-> t2]

\* The Post literal createPost encodes into the response.
NewPost(id, userID, content, t1, t2) ==
    [id |-> id, user_id |-> userID, content |-> content, likes |-> 0,
     replies |-> Slice(<<>>), created_at |-> t1, updated_at |-> t2]

\* Bodies that lack uid or content: the absent field decodes to "".
PostIncomplete ==
    {b \in [op : {"post"}, uid : UIDs \cup {""}, content : PostContents \cup {""}] :
        b.uid = "" \/ b.content = ""}

\* Decode the body, then SELECT id FROM users WHERE uid = ?.
CreatePostSelectFrom(p, Bodies) ==
    /\ pc[p] = "idle"
    /\ \E body \in Bodies, decodes \in BOOLEAN, fails \in BOOLEAN :
        IF ~decodes
        THEN /\ Received(p, Malformed("post"))
             /\ Respond(p, Error("bad request", StatusBadRequest))
             /\ UNCHANGED local
        ELSE /\ Received(p, body)
             /\ LET r == SelectUserID(body.uid)
                IN  IF fails \/ r.err = "ErrNoRows"
                    THEN /\ Respond(p, Error("user id lookup error",
                                             StatusInternalServerError))
                         /\ SetLocal(p, [fault |-> fails])
                    ELSE /\ Len(posts) + Pending("post_insert") < MaxPosts
                         /\ SetLocal(p, [fault |-> FALSE, userID |-> r.id])
                         /\ Goto(p, "post_insert")
                         /\ UNCHANGED resp
    /\ UNCHANGED <<store, uidUnique, now, acked>>

CreatePostSelect(p) == CreatePostSelectFrom(p, PostPayloads)

\* INSERT INTO posts (user_id, content), res.LastInsertId(), then encode
\* the Post with two readings of time.Now().
CreatePostInsert(p) ==
    /\ pc[p] = "post_insert"
    /\ \E fails \in BOOLEAN, t \in now..MaxTime :
        IF fails
        THEN /\ Respond(p, Error("post creation error", StatusInternalServerError))
             /\ SetLocal(p, [local[p] EXCEPT !.fault = TRUE])
             /\ UNCHANGED <<posts, now>>
        ELSE \E r \in ClockReadings :
             /\ posts' = InsertPost(local[p].userID, payload[p].content, t)
             /\ now' = t
             /\ Respond(p, JSON(StatusOK, NewPost(NextID(posts), local[p].userID,
                                                  payload[p].content, r[1], r[2])))
             /\ UNCHANGED local
    /\ UNCHANGED <<users, replies, likes, uidUnique, payload, acked>>

\* ---------------------------------------------------------- createReply
ReplyPayloads ==
    [op : {"reply"}, uid : UIDs, post_id : PostKeys, content : ReplyContents]

\* The foreign key replies.post_id -> posts.id: the referenced post exists.
PostExists(postID) == \E i \in 1..Len(posts) : posts[i].id = postID

\* The replies table after INSERT INTO replies (post_id, user_id, content).
InsertReply(postID, userID, content, t) ==
    Append(replies, [id |-> NextID(replies), post_id |-> postID, user_id |-> userID,
                     content |-> content, created_at |-> t, updated_at |-> t])

\* The Reply literal createReply encodes into the response.
NewReply(id, postID, userID, content, t1, t2) ==
    [id |-> id, post_id |-> postID, user_id |-> userID, content |-> content,
     created_at |-> t1, updated_at |-> t2]

\* Bodies that lack uid, post_id or content: the absent field decodes to
\* "", 0 or the empty string.
ReplyIncomplete ==
    {b \in [op : {"reply"}, uid : UIDs \cup {""}, post_id : PostKeys \cup {0},
            content : ReplyContents \cup {<<>>}] :
        b.uid = "" \/ b.post_id = 0 \/ b.content = <<>>}

\* Decode the body, then SELECT id FROM users WHERE uid = ?.
CreateReplySelectFrom(p, Bodies) ==
    /\ pc[p] = "idle"
    /\ \E body \in Bodies, decodes \in BOOLEAN, fails \in BOOLEAN :
        IF ~decodes
        THEN /\ Received(p, Malformed("reply"))
             /\ Respond(p, Error("bad request", StatusBadRequest))
             /\ UNCHANGED local
        ELSE /\ Received(p, body)
             /\ LET r == SelectUserID(body.uid)
                IN  IF fails \/ r.err = "ErrNoRows"
                    THEN /\ Respond(p, Error("user id lookup error",
                                             StatusInternalServerError))
                         /\ SetLocal(p, [fault |-> fails])
                    ELSE /\ Len(replies) + Pending("reply_insert") < MaxReplies
                         /\ SetLocal(p, [fault |-> FALSE, userID |-> r.id])
                         /\ Goto(p, "reply_insert")
                         /\ UNCHANGED resp
    /\ UNCHANGED <<store, uidUnique, now, acked>>

CreateReplySelect(p) == CreateReplySelectFrom(p, ReplyPayloads)

\* INSERT INTO replies (post_id, user_id, content), res.LastInsertId(),
\* then encode the Reply with two readings of time.Now().
CreateReplyInsert(p) ==
    /\ pc[p] = "reply_insert"
    /\ \E fails \in BOOLEAN, t \in now..MaxTime :
        IF fails \/ ~PostExists(payload[p].post_id)
        THEN /\ Respond(p, Error("reply creation error", StatusInternalServerError))
             /\ SetLocal(p, [local[p] EXCEPT !.fault = fails])
             /\ UNCHANGED <<replies, now>>
        ELSE \E r \in ClockReadings :
             /\ replies' = InsertReply(payload[p].post_id, local[p].userID,
                                       payload[p].content, t)
             /\ now' = t
             /\ Respond(p, JSON(StatusOK, NewReply(NextID(replies), payload[p].post_id,
                                                   local[p].userID, payload[p].content,
                                                   r[1], r[2])))
             /\ UNCHANGED local
    /\ UNCHANGED <<users, posts, likes, uidUnique, payload, acked>>

\* -------------------------------------------------------------- getPosts
\* s is in non-increasing order of created_at.
IsCreatedAtDesc(s) == \A i \in 1..(Len(s) - 1) : s[i].created_at >= s[i + 1].created_at

\* The orders in which the rows of table t may come back.
RowOrders(t) ==
    LET n == Len(t)
        Bijections == {f \in [1..n -> 1..n] : \A i, j \in 1..n : f[i] = f[j] => i = j}
    IN  {[i \in 1..n |-> t[f[i]]] : f \in Bijections}

\* The result without an ORDER BY clause: the rows in storage order.
StorageOrder(t) == {t}

\* SELECT ... FROM posts ORDER BY created_at DESC: every row once, ordered
\* by the sort key; rows with equal keys come in an order the store picks.
OrderByCreatedAtDesc(t) == {s \in RowOrders(t) : IsCreatedAtDesc(s)}

\* var posts []Post
NoPosts == NilSlice

\* var p Post with Replies left as declared: a nil slice.
InitRepliesNil == NilSlice

\* p.Replies = []Reply{}: the slice before the reply rows are read.
InitReplies == Slice(<<>>)

\* The rows of s read before the first failed Scan: the loop stops there.
RECURSIVE ScannedPrefix(_, _, _)
ScannedPrefix(s, bad, i) ==
    IF i > Len(s) \/ i \in bad THEN <<>>
    ELSE <<s[i]>> \o ScannedPrefix(s, bad, i + 1)

\* The rows of s whose index is not in bad (rows.Scan failed there and the
\* loop continued with the next row).
RECURSIVE Scanned(_, _, _)
Scanned(s, bad, i) ==
    IF i > Len(s) THEN <<>>
    ELSE (IF i \in bad THEN <<>> ELSE <<s[i]>>) \o Scanned(s, bad, i + 1)

\* SELECT id, post_id, user_id, content, created_at, updated_at FROM replies
\* WHERE post_id = ?
SelectReplies(postID) == SelectSeq(replies, LAMBDA r : r.post_id = postID)

\* json.NewEncoder(w).Encode(posts) at the end of getPosts.
EncodePosts(p, list) == Respond(p, JSON(StatusOK, list))

\* A line the handler writes with log.Printf when it goes on after a
\* failure. The real line holds the message and the error only; post and
\* reply (the keys of the rows concerned, 0 for none) are history.
LogEntry(msg, postID, replyID) == [msg |-> msg, post |-> postID, reply |-> replyID]

\* The log lines of the reply loop: one for every row whose Scan failed.
RECURSIVE ReplyScanErrors(_, _, _)
ReplyScanErrors(rows, bad, i) ==
    IF i > Len(rows) THEN <<>>
    ELSE (IF i \in bad
          THEN <<LogEntry("reply scan error", rows[i].post_id, rows[i].id)>>
          ELSE <<>>) \o ReplyScanErrors(rows, bad, i + 1)

\* break in place of continue: no row is read after a failed Scan.
BreakAfterScanError(rest) == <<>>

\* continue after a failed Scan of a post: the loop goes on with the rows
\* the cursor still holds.
ContinueAfterScanError(rest) == rest

\* The connections an open cursor with the rows rest still to read holds:
\* rows.Next() returning false closes the cursor and releases its connection.
CursorConns(rest) == IF rest = <<>> THEN 0 ELSE 1

\* db.Query("SELECT ... FROM posts ORDER BY created_at DESC"): the cursor
\* holds the result of the statement, and its connection (local[p].conns)
\* until rows.Next() returns false. local[p].base (the result) and
\* local[p].likes0 (the likes table when the request started) are history.
GetPostsQuery(p) ==
    /\ pc[p] = "idle"
    /\ Received(p, [op |-> "posts"])
    /\ \E fails \in BOOLEAN :
        IF fails
        THEN /\ Respond(p, Error("post fetch failed", StatusInternalServerError))
             /\ SetLocal(p, Faulted)
        ELSE \E rows \in OrderByCreatedAtDesc(posts) :
             /\ SetLocal(p, [fault |-> FALSE, rows |-> rows, posts |-> NoPosts,
                             base |-> rows, likes0 |-> likes, log |-> <<>>,
                             conns |-> CursorConns(rows)])
             /\ IF rows = <<>> THEN EncodePosts(p, NoPosts)
                ELSE Goto(p, "posts_likes") /\ UNCHANGED resp
    /\ UNCHANGED <<store, uidUnique, now, acked>>

\* rows.Next() and rows.Scan of the next post (a failed Scan is logged and
\* skips it), then SELECT COUNT(*) FROM likes WHERE post_id = ? (a failure
\* is only logged and leaves p.Likes at zero).
GetPostsLikes(p) ==
    /\ pc[p] = "posts_likes"
    /\ \E scanFails \in BOOLEAN, countFails \in BOOLEAN :
        LET row == Head(local[p].rows)
            rest == ContinueAfterScanError(Tail(local[p].rows))
        IN  IF scanFails
            THEN /\ SetLocal(p, [fault |-> TRUE, rows |-> rest,
                                 posts |-> local[p].posts,
                                 base |-> local[p].base, likes0 |-> local[p].likes0,
                                 log |-> Append(local[p].log,
                                                LogEntry("post scan error", row.id, 0)),
                                 conns |-> CursorConns(rest)])
                 /\ IF rest = <<>> THEN EncodePosts(p, local[p].posts)
                    ELSE UNCHANGED <<pc, resp>>
            ELSE /\ SetLocal(p,
                        [fault |-> local[p].fault \/ countFails,
                         rows |-> local[p].rows, posts |-> local[p].posts,
                         base |-> local[p].base, likes0 |-> local[p].likes0,
                         log |-> IF countFails
                                 THEN Append(local[p].log,
                                             LogEntry("like count error", row.id, 0))
                                 ELSE local[p].log,
                         conns |-> local[p].conns,
                         cur |-> [id |-> row.id, user_id |-> row.user_id,
                                  content |-> row.content,
                                  likes |-> IF countFails THEN 0 ELSE CountLikes(row.id),
                                  replies |-> InitReplies,
                                  created_at |-> row.created_at,
                                  updated_at |-> row.updated_at]])
                 /\ Goto(p, "posts_replies")
                 /\ UNCHANGED resp
    /\ UNCHANGED <<store, uidUnique, now, payload, acked>>

\* db.Query of the post's replies and the loop over them (a failed query
\* is only logged, a failed Scan is logged and skips the row),
\* posts = append(posts, p), and, after the last post, the response.
GetPostsReplies(p) ==
    /\ pc[p] = "posts_replies"
    /\ \E queryFails \in BOOLEAN :
       \E bad \in SUBSET (1..Len(SelectReplies(local[p].cur.id))) :
        LET cur == local[p].cur
            got == IF queryFails THEN cur.replies
                   ELSE AppendSlice(cur.replies, Scanned(SelectReplies(cur.id), bad, 1))
            list == AppendSlice(local[p].posts, <<[cur EXCEPT !.replies = got]>>)
            rest == Tail(local[p].rows)
            lines == IF queryFails THEN <<LogEntry("reply query error", cur.id, 0)>>
                     ELSE ReplyScanErrors(SelectReplies(cur.id), bad, 1)
        IN  /\ queryFails => bad = {}
            /\ SetLocal(p, [fault |-> local[p].fault \/ queryFails \/ bad # {},
                            rows |-> rest, posts |-> list,
                            base |-> local[p].base, likes0 |-> local[p].likes0,
                            log |-> local[p].log \o lines,
                            conns |-> CursorConns(rest)])
            /\ IF rest = <<>> THEN EncodePosts(p, list)
               ELSE Goto(p, "posts_likes") /\ UNCHANGED resp
    /\ UNCHANGED <<store, uidUnique, now, payload, acked>>

\* ------------------------------------------------------ summarizeReplies
\* The fallback callGeminiAPI returns when the request cannot be built or
\* sent (main.go:436 and :444, "summary error" in Japanese), and the one it
\* returns when the response holds no candidate text (main.go:463, "no
\* summary result" in Japanese).
SummaryError == "summary error"
SummaryNone == "no summary result"

\* What the provider call can come to: the request cannot be built, it
\* cannot be sent, the body is not JSON, the body is JSON of another shape
\* (json.Unmarshal leaves the zero value in the mismatching field), or the
\* body decodes into the candidate list.
CandidateLists ==
    { <<>>,
      <<[parts |-> <<>>]>>,
      <<[parts |-> <<"s1">>]>>,
      <<[parts |-> <<"s1", "s2">>]>>,
      <<[parts |-> <<"s2">>], [parts |-> <<"s1">>]>>,
      <<[parts |-> <<>>], [parts |-> <<"s1">>]>> }
ProviderOutcomes ==
    [kind : {"build_error", "send_error", "not_json"}, candidates : {<<>>}]
    \cup [kind : {"json"}, candidates : CandidateLists]
    \cup [kind : {"type_mismatch"}, candidates : {<<[parts |-> <<"">>]>>}]

\* result.Candidates after json.Unmarshal(body, &result), whose error is
\* dropped: a body that is not JSON leaves the zero value.
Unmarshal(outcome) ==
    IF outcome.kind \in {"json", "type_mismatch"} THEN outcome.candidates ELSE <<>>

\* callGeminiAPI with one fallback for every failure.
CallGeminiAPISingleFallback(text, outcome) ==
    IF outcome.kind \in {"build_error", "send_error"} THEN SummaryNone
    ELSE LET candidates == Unmarshal(outcome)
         IN  IF Len(candidates) > 0 /\ Len(candidates[1].parts) > 0
             THEN candidates[1].parts[1]
             ELSE SummaryNone

\* callGeminiAPI(text) when the provider call comes to outcome.
CallGeminiAPI(text, outcome) ==
    IF outcome.kind \in {"build_error", "send_error"} THEN SummaryError
    ELSE LET candidates == Unmarshal(outcome)
         IN  IF Len(candidates) > 0 /\ Len(candidates[1].parts) > 0
             THEN candidates[1].parts[1]
             ELSE SummaryNone

\* all = content + "\n" + all: the newest reply first.
RECURSIVE ConcatRepliesReversed(_, _, _)
ConcatRepliesReversed(rows, bad, i) ==
    IF i > Len(rows) THEN <<>>
    ELSE ConcatRepliesReversed(rows, bad, i + 1)
         \o (IF i \in bad THEN <<>> ELSE rows[i].content) \o <<"\n">>

\* all += content + "\n" for every row of the cursor from row i on; a row
\* whose Scan failed (index in bad) leaves content empty.
RECURSIVE ConcatReplies(_, _, _)
ConcatReplies(rows, bad, i) ==
    IF i > Len(rows) THEN <<>>
    ELSE (IF i \in bad THEN <<>> ELSE rows[i].content) \o <<"\n">>
         \o ConcatReplies(rows, bad, i + 1)

\* db.Query("SELECT content FROM replies WHERE post_id = ?") with the error
\* dropped, then the loop over the cursor. A failed query leaves a nil
\* *sql.Rows, and replies.Next() on it panics.
SummarizeQuery(p) ==
    /\ pc[p] = "idle"
    /\ \E postID \in PostKeys, fails \in BOOLEAN :
        /\ Received(p, [op |-> "summary", postId |-> postID])
        /\ IF fails
           THEN Respond(p, Panic) /\ SetLocal(p, Faulted)
           ELSE \E bad \in SUBSET (1..Len(SelectReplies(postID))) :
                /\ SetLocal(p, [fault |-> bad # {},
                                all |-> ConcatReplies(SelectReplies(postID), bad, 1)])
                /\ Goto(p, "summary_call")
                /\ UNCHANGED resp
    /\ UNCHANGED <<store, uidUnique, now, acked>>

\* summary := callGeminiAPI(all), then encode {"summary": summary}.
SummarizeCall(p) ==
    /\ pc[p] = "summary_call"
    /\ \E outcome \in ProviderOutcomes :
        /\ SetLocal(p, [fault |-> local[p].fault, all |-> local[p].all,
                        outcome |-> outcome])
        /\ Respond(p, JSON(StatusOK, [summary |-> CallGeminiAPI(local[p].all, outcome)]))
    /\ UNCHANGED <<store, uidUnique, now, payload, acked>>

\* The handler has returned and the response is delivered: the slot serves
\* the next request.
Finish(p) ==
    /\ pc[p] = "done"
    /\ pc' = [pc EXCEPT ![p] = "idle"]
    /\ payload' = [payload EXCEPT ![p] = Idle]
    /\ local' = [local EXCEPT ![p] = NoLocal]
    /\ resp' = [resp EXCEPT ![p] = NoResp]
    /\ UNCHANGED <<store, uidUnique, now, acked>>

\* ------------------------------------------------------- specifications
\* The likes and the replies of u1 alone (replies with one content).
ListingLikes == {b \in LikePayloads : b.uid = "u1"}
ListingReplies == {b \in ReplyPayloads : b.uid = "u1" /\ b.content = <<"b">>}
loginHandler(p) == LoginSelect(p) \/ LoginInsert(p)
createLike(p) == CreateLikeSelect(p) \/ CreateLikeInsert(p)
createPost(p) == CreatePostSelect(p) \/ CreatePostInsert(p)
createReply(p) == CreateReplySelect(p) \/ CreateReplyInsert(p)
getPosts(p) == GetPostsQuery(p) \/ GetPostsLikes(p) \/ GetPostsReplies(p)
summarizeReplies(p) == SummarizeQuery(p) \/ SummarizeCall(p)

\* No other request is between two statements of its handler.
Alone(p) == \A q \in Procs \ {p} : ~InFlight(q)
\* Every other handler has returned.
Serial(p) == \A q \in Procs \ {p} : pc[q] = "idle"

\* Every handler, requests served concurrently, one goroutine each.
Next ==
    \E p \in Procs :
        \/ loginHandler(p) \/ createLike(p) \/ createPost(p) \/ createReply(p)
        \/ getPosts(p) \/ summarizeReplies(p) \/ Finish(p)

Spec == Init /\ [][Next]_vars

\* Concurrent logins on the empty store.
NextLogin == \E p \in Procs : loginHandler(p) \/ Finish(p)
SpecLogin == Init /\ [][NextLogin]_vars

\* Logins one after the other: a request starts when no other is running.
NextLoginSeq == \E p \in Procs : Alone(p) /\ (loginHandler(p) \/ Finish(p))
SpecLoginSeq == Init /\ [][NextLoginSeq]_vars

\* The store after u1 and u2 have logged in (SpecLoginSeq reaches it).
LoggedIn ==
    <<[id |-> 1, uid |-> "u1", username |-> "alice", email |-> "a@x"],
      [id |-> 2, uid |-> "u2", username |-> "bob", email |-> "b@x"]>>
InitLoggedIn ==
    /\ users = LoggedIn /\ posts = <<>> /\ replies = <<>> /\ likes = EmptyBag
    /\ uidUnique = TRUE
    /\ now = 0
    /\ pc = [p \in Procs |-> "idle"]
    /\ payload = [p \in Procs |-> Idle]
    /\ local = [p \in Procs |-> NoLocal]
    /\ resp = [p \in Procs |-> NoResp]
    /\ acked = {}

\* Concurrent likes by the logged-in users, through either handler.
NextLike == \E p \in Procs : createLike(p) \/ LikePostHandler(p) \/ Finish(p)
SpecLike == InitLoggedIn /\ [][NextLike]_vars

\* Likes through the handler of the conflict-policy variant, one (one-statement)
\* request after the other.
NextConflict == \E p \in Procs : Serial(p) /\ (CreateLikeConflict(p) \/ Finish(p))
SpecConflict == InitLoggedIn /\ [][NextConflict]_vars

\* A store with every post it may hold, created by u1 one clock tick apart,
\* and with u1's replies to post 1 until one more reply fits.
InitListing ==
    /\ users = LoggedIn
    /\ posts = [i \in 1..MaxPosts |->
                   [id |-> i, user_id |-> 1, content |-> "hello",
                    created_at |-> i - 1, updated_at |-> i - 1]]
    /\ replies = [i \in 1..(MaxReplies - 1) |->
                     [id |-> i, post_id |-> 1, user_id |-> 1, content |-> <<"a">>,
                      created_at |-> MaxPosts - 1, updated_at |-> MaxPosts - 1]]
    /\ likes = EmptyBag
    /\ uidUnique = TRUE
    /\ now = MaxPosts - 1
    /\ pc = [p \in Procs |-> "idle"]
    /\ payload = [p \in Procs |-> Idle]
    /\ local = [p \in Procs |-> NoLocal]
    /\ resp = [p \in Procs |-> NoResp]
    /\ acked = {}

\* Listings, likes and replies, one request after the other.
NextListingSeq ==
    \E p \in Procs :
        Serial(p) /\ (getPosts(p) \/ createLike(p) \/ createReply(p) \/ Finish(p))
SpecListingSeq == InitListing /\ [][NextListingSeq]_vars

\* A listing by the first request slot, concurrent with u1's likes and
\* replies by the second.
NextListing ==
    \/ getPosts(1) \/ Finish(1)
    \/ CreateLikeSelectFrom(2, ListingLikes) \/ CreateLikeInsert(2)
    \/ CreateReplySelectFrom(2, ListingReplies) \/ CreateReplyInsert(2)
    \/ Finish(2)
SpecListing == InitListing /\ [][NextListing]_vars

\* Posts, likes and listings by the logged-in users, one after the other.
NextPostsSeq ==
    \E p \in Procs :
        Serial(p) /\ (createPost(p) \/ createLike(p) \/ getPosts(p) \/ Finish(p))
SpecPostsSeq == InitLoggedIn /\ [][NextPostsSeq]_vars

\* The store after u1 has also created a post (SpecPostsSeq reaches it).
InitPosted ==
    /\ users = LoggedIn
    /\ posts = <<[id |-> 1, user_id |-> 1, content |-> "hello",
                  created_at |-> 0, updated_at |-> 0]>>
    /\ replies = <<>> /\ likes = EmptyBag
    /\ uidUnique = TRUE
    /\ now = 0
    /\ pc = [p \in Procs |-> "idle"]
    /\ payload = [p \in Procs |-> Idle]
    /\ local = [p \in Procs |-> NoLocal]
    /\ resp = [p \in Procs |-> NoResp]
    /\ acked = {}

\* Replies, listings and summaries, one after the other.
NextRepliesSeq ==
    \E p \in Procs :
        Serial(p) /\ (createReply(p) \/ getPosts(p) \/ summarizeReplies(p) \/ Finish(p))
SpecRepliesSeq == InitPosted /\ [][NextRepliesSeq]_vars

\* Concurrent summaries of the posted store.
NextSummary == \E p \in Procs : summarizeReplies(p) \/ Finish(p)
SpecSummary == InitPosted /\ [][NextSummary]_vars

\* A store in use: u1 alone has logged in (u2 is an external identifier the
\* store does not know), has created every post but the last the posts
\* table may hold, and has replied to post 1 until one more reply fits.
InitBusy ==
    /\ users = <<LoggedIn[1]>>
    /\ posts = [i \in 1..(MaxPosts - 1) |->
                   [id |-> i, user_id |-> 1, content |-> "hello",
                    created_at |-> 0, updated_at |-> 0]]
    /\ replies = [i \in 1..(MaxReplies - 1) |->
                     [id |-> i, post_id |-> 1, user_id |-> 1, content |-> <<"a">>,
                      created_at |-> 0, updated_at |-> 0]]
    /\ likes = EmptyBag
    /\ uidUnique = TRUE
    /\ now = 0
    /\ pc = [p \in Procs |-> "idle"]
    /\ payload = [p \in Procs |-> Idle]
    /\ local = [p \in Procs |-> NoLocal]
    /\ resp = [p \in Procs |-> NoResp]
    /\ acked = {}

\* Every handler, one request after the other: logins of u1 and of the
\* unknown u2, and posts, replies and likes by u1.
NextAllSeq ==
    \E p \in Procs :
        Serial(p) /\ (\/ loginHandler(p)
                      \/ CreatePostSelectFrom(p, {b \in PostPayloads : b.uid = "u1"})
                      \/ CreatePostInsert(p)
                      \/ CreateReplySelectFrom(p, ListingReplies) \/ CreateReplyInsert(p)
                      \/ CreateLikeSelectFrom(p, ListingLikes) \/ CreateLikeInsert(p)
                      \/ getPosts(p) \/ summarizeReplies(p)
                      \/ Finish(p))
SpecAllSeq == InitBusy /\ [][NextAllSeq]_vars

\* Posts, replies and likes by a known and an unknown user, one request
\* after the other.
NextActions ==
    \E p \in Procs :
        Serial(p) /\ (createPost(p) \/ createReply(p) \/ createLike(p) \/ Finish(p))
SpecActions == InitBusy /\ [][NextActions]_vars

\* Requests whose body does not decode or lacks a required field, one
\* after the other.
NextBadRequest ==
    \E p \in Procs :
        Serial(p) /\ (\/ LoginSelectFrom(p, LoginIncomplete) \/ LoginInsert(p)
                      \/ CreatePostSelectFrom(p, PostIncomplete) \/ CreatePostInsert(p)
                      \/ CreateReplySelectFrom(p, ReplyIncomplete) \/ CreateReplyInsert(p)
                      \/ CreateLikeSelectFrom(p, LikeIncomplete) \/ CreateLikeInsert(p)
                      \/ Finish(p))
SpecBadRequest == InitBusy /\ [][NextBadRequest]_vars

\* ------------------------------------------------------ connection pool
\* sql.Open and no db.SetMaxOpenConns: database/sql's default, 0, puts no
\* limit on the open connections of the pool.
MaxOpenConns == 0

\* The connections request p has borrowed from the pool and not released.
\* QueryRow(...).Scan, Exec and a cursor read to its end within one step
\* have released theirs when the step ends.
Borrowed(p) == IF "conns" \in DOMAIN local[p] THEN local[p].conns ELSE 0
RECURSIVE SumBorrowed(_)
SumBorrowed(S) ==
    IF S = {} THEN 0
    ELSE LET q == CHOOSE q \in S : TRUE
         IN  Borrowed(q) + SumBorrowed(S \ {q})
NumOpen == SumBorrowed(Procs)

\* A pool limited to as many connections as there are request slots.
PoolHasRoomLimited == NumOpen < NumProcs

\* database/sql hands a statement a connection at once unless the pool is
\* at its limit; then the caller waits until a connection is released.
PoolHasRoom == MaxOpenConns = 0 \/ NumOpen < MaxOpenConns

\* The next step of p issues a statement (the provider call and the return
\* of the handler do not).
IssuesStatement(p) == pc[p] \notin {"summary_call", "done"}
\* p is blocked in database/sql, waiting for a connection.
WaitsForConn(p) == IssuesStatement(p) /\ ~PoolHasRoom

\* One step of the request in slot p: a listing, a summary or a like of u1.
PoolStep(p) ==
    /\ ~WaitsForConn(p)
    /\ \/ getPosts(p) \/ summarizeReplies(p)
       \/ CreateLikeSelectFrom(p, ListingLikes) \/ CreateLikeInsert(p)
       \/ Finish(p)

\* Concurrent listings, summaries and likes on the pool. A goroutine that
\* can run is scheduled, and the store and the provider answer: a request
\* in flight that can take its next step takes it.
NextPool == \E p \in Procs : PoolStep(p)
SpecPool ==
    /\ InitListing /\ [][NextPool]_vars
    /\ \A p \in Procs : WF_vars(InFlight(p) /\ PoolStep(p))

\* ----------------------------------------------------------------------
\* Properties
\* ----------------------------------------------------------------------
\* Request p got its answer from handler op, which decoded the body and met
\* no failure of the store.
Answered(p, op) ==
    /\ pc[p] = "done" /\ payload[p].op = op
    /\ "malformed" \notin DOMAIN payload[p]
    /\ ~local[p].fault
Succeeded(p, op) == Answered(p, op) /\ resp[p].status = StatusOK

\* The positions of the users rows with external identifier uid.
UsersWithUID(uid) == {i \in 1..Len(users) : users[i].uid = uid}

\* C1: logins served one after the other. Every login of a uid that is
\* answered finds exactly one users row with that uid, answers 200 with the
\* key of that row, and any two answered logins of one uid carry the same
\* key, whatever username and email they carried.
C1_LoginTwiceSameKey ==
    \A p \in Procs : Answered(p, "login") =>
        /\ resp[p].status = StatusOK
        /\ Cardinality(UsersWithUID(payload[p].uid)) = 1
        /\ \A i \in UsersWithUID(payload[p].uid) : users[i].id = resp[p].body.user_id
        /\ \A q \in Procs :
            Answered(q, "login") /\ payload[q].uid = payload[p].uid
                => /\ resp[q].status = StatusOK
                   /\ resp[q].body.user_id = resp[p].body.user_id

\* Two logins of one uid with different usernames, one after the other,
\* are both answered, and another user exists as well.
C1_Witness ==
    \E p, q \in Procs :
        /\ p # q /\ Succeeded(p, "login") /\ Succeeded(q, "login")
        /\ payload[p].uid = payload[q].uid
        /\ payload[p].username # payload[q].username
        /\ Len(users) = 2

\* C2: concurrent logins. Every login of a uid that is answered (the store
\* failing no statement) finds exactly one users row with that uid and
\* answers 200 with that row's key.
C2_ConcurrentLoginOnce ==
    \A p \in Procs : Answered(p, "login") =>
        /\ Cardinality(UsersWithUID(payload[p].uid)) = 1
        /\ resp[p].status = StatusOK
        /\ \A i \in UsersWithUID(payload[p].uid) : users[i].id = resp[p].body.user_id

\* C3: likes served one after the other. Every createLike call that is
\* answered (the first for its pair and every repetition) answers 200 and
\* leaves exactly one likes row for its (user key, post key) pair.
C3_LikeTwiceOneRow ==
    \A p \in Procs : Answered(p, "like") =>
        /\ resp[p].status = StatusOK
        /\ CopiesIn(LikeRow(local[p].userID, payload[p].post_id), likes) = 1

\* A repeated like: the insert affected no row, the answer is 200 and the
\* pair has its one row.
C3_Witness ==
    \E p \in Procs :
        /\ Succeeded(p, "like") /\ local[p].affected = 0
        /\ CopiesIn(LikeRow(local[p].userID, payload[p].post_id), likes) = 1

\* C4: under concurrent like requests (createLike and likePostHandler) the
\* likes table never holds two rows for one (user key, post key) pair, and
\* no like request has read the likes table before its insert.
C4_OneLikePerPair ==
    /\ \A l \in BagToSet(likes) : CopiesIn(l, likes) = 1
    /\ \A p \in Procs :
        payload[p].op \in {"like", "likePost"} /\ "reads" \in DOMAIN local[p]
            => "likes" \notin local[p].reads

\* Two like requests for one pair are both answered with success: one
\* inserted the row, the other was ignored as a duplicate.
C4_Witness ==
    \E p, q \in Procs :
        /\ p # q /\ pc[p] = "done" /\ pc[q] = "done"
        /\ payload[p].op = "like" /\ payload[q].op \in {"like", "likePost"}
        /\ resp[p].status = StatusOK /\ resp[q].status \in {StatusOK, StatusCreated}
        /\ local[p].userID = local[q].userID
        /\ payload[p].post_id = payload[q].post_id
        /\ local[p].affected = 0 /\ local[q].affected = 1
        /\ CopiesIn(LikeRow(local[p].userID, payload[p].post_id), likes) = 1

\* The users whose like of post postID was answered with success.
LikedBy(postID) == {a \in acked : a[2] = postID}

\* C5: posts, likes and listings served one after the other. A listing that
\* met no failure reports every post, each with likes equal to the number
\* of distinct users whose like of it was acknowledged, and a post without
\* replies carries the empty list, not null.
C5_ListingCountsLikes ==
    \A p \in Procs : Answered(p, "posts") =>
        /\ resp[p].status = StatusOK
        /\ Len(resp[p].body.elems) = Len(posts)
        /\ \A i \in 1..Len(resp[p].body.elems) :
            LET e == resp[p].body.elems[i]
            IN  /\ e.likes = Cardinality(LikedBy(e.id))
                /\ SelectReplies(e.id) = <<>> => e.replies = Slice(<<>>)

\* A listing of two posts, one liked by one user and one liked by both,
\* both without replies.
C5_Witness ==
    \E p \in Procs :
        /\ Succeeded(p, "posts") /\ Len(resp[p].body.elems) = 2
        /\ \E i, j \in 1..2 :
            /\ resp[p].body.elems[i].likes = 1
            /\ resp[p].body.elems[j].likes = 2
            /\ resp[p].body.elems[i].replies = Slice(<<>>)

\* C6: in every listing getPosts answers with, whatever failed on the way,
\* a post never precedes one created later.
C6_ListingNewestFirst ==
    \A p \in Procs :
        pc[p] = "done" /\ payload[p].op = "posts" /\ resp[p].kind = "json" =>
            \A i, j \in 1..Len(resp[p].body.elems) :
                i < j => resp[p].body.elems[i].created_at >= resp[p].body.elems[j].created_at

\* A listing of two posts created at different times: the later first.
C6_Witness ==
    \E p \in Procs :
        /\ Succeeded(p, "posts") /\ Len(resp[p].body.elems) = 2
        /\ resp[p].body.elems[1].created_at > resp[p].body.elems[2].created_at
        /\ resp[p].body.elems[1].id > resp[p].body.elems[2].id

\* C10: the Post every successful createPost answers with has likes = 0 and
\* the empty (not null) list of replies.
C10_NewPostEmpty ==
    \A p \in Procs :
        pc[p] = "done" /\ payload[p].op = "post" /\ resp[p].status = StatusOK =>
            /\ resp[p].body.likes = 0
            /\ resp[p].body.replies = Slice(<<>>)

\* A post created into a store that holds another post and, for the key the
\* new post gets, a like already.
C10_Witness ==
    \E p \in Procs :
        /\ Succeeded(p, "post") /\ Len(posts) = 2
        /\ resp[p].body.id = 2 /\ CountLikes(2) > 0

\* The contents of the replies of post postID, in creation order.
ContentsOf(postID) ==
    [i \in 1..Len(SelectReplies(postID)) |-> SelectReplies(postID)[i].content]

\* strings.Join(cs, "\n"): newlines between the elements only.
RECURSIVE JoinNL(_)
JoinNL(cs) ==
    IF cs = <<>> THEN <<>>
    ELSE IF Len(cs) = 1 THEN cs[1]
    ELSE cs[1] \o <<"\n">> \o JoinNL(Tail(cs))

\* The summary request p has read its replies, every Scan succeeding.
HasText(p) ==
    /\ payload[p].op = "summary" /\ pc[p] \in {"summary_call", "done"}
    /\ ~local[p].fault

\* In a listing that met no failure, every post embeds all of its replies
\* in creation order (ascending keys).
ListingsEmbedInOrder ==
    \A p \in Procs : Answered(p, "posts") =>
        \A i \in 1..Len(resp[p].body.elems) :
            LET e == resp[p].body.elems[i]
                rs == e.replies.elems
            IN  /\ {rs[k].id : k \in 1..Len(rs)}
                      = {replies[k].id : k \in {j \in 1..Len(replies) :
                                                    replies[j].post_id = e.id}}
                /\ \A k \in 1..(Len(rs) - 1) : rs[k].id < rs[k + 1].id

\* C7 as stated: for a post with three replies, getPosts embeds them in
\* creation order and the text handed to callGeminiAPI is their contents
\* joined with newline separators.
C7_TextIsJoined ==
    /\ ListingsEmbedInOrder
    /\ \A p \in Procs :
        HasText(p) /\ Len(ContentsOf(payload[p].postId)) = 3
            => local[p].all = JoinNL(ContentsOf(payload[p].postId))

\* C7 (amended): getPosts embeds a post's replies in creation order, and
\* the text handed to callGeminiAPI is their contents in that order, each
\* followed by a newline: empty for no reply, else the joined contents and a
\* trailing newline.
C7_TextIsTerminated ==
    /\ ListingsEmbedInOrder
    /\ \A p \in Procs : HasText(p) =>
        LET cs == ContentsOf(payload[p].postId)
        IN  local[p].all = IF cs = <<>> THEN <<>> ELSE JoinNL(cs) \o <<"\n">>

\* A summary of a post with three replies whose contents differ.
C7_Witness ==
    \E p \in Procs :
        /\ Succeeded(p, "summary")
        /\ Len(ContentsOf(payload[p].postId)) = 3
        /\ ContentsOf(payload[p].postId)[1] # ContentsOf(payload[p].postId)[2]
        /\ Len(local[p].all) = 6

\* The text of the first candidate's first part, when there is one.
FirstCandidateText(outcome) ==
    IF Len(outcome.candidates) > 0 /\ Len(outcome.candidates[1].parts) > 0
    THEN {outcome.candidates[1].parts[1]} ELSE {}

\* C8: every summarizeReplies request completes normally, whatever its
\* collaborators did: it answers with a JSON object whose summary is the
\* provider's first candidate text or a fallback string.
C8_SummarizeNeverRaises ==
    \A p \in Procs : pc[p] = "done" /\ payload[p].op = "summary" =>
        /\ resp[p].kind = "json"
        /\ resp[p].body.summary \in
               {SummaryError, SummaryNone} \cup FirstCandidateText(local[p].outcome)

\* The provider call of summary request p failed: the request could not be
\* built or sent, the response was not JSON, or it held no candidate.
ProviderFailed(p) ==
    /\ pc[p] = "done" /\ payload[p].op = "summary" /\ resp[p].kind = "json"
    /\ \/ local[p].outcome.kind \in {"build_error", "send_error", "not_json"}
       \/ local[p].outcome.kind = "json" /\ local[p].outcome.candidates = <<>>

\* C9 as stated: all failures of the provider call produce the identical
\* summary text.
C9_OneFallback ==
    \A p, q \in Procs :
        ProviderFailed(p) /\ ProviderFailed(q)
            => resp[p].body.summary = resp[q].body.summary

\* C9 (amended): callGeminiAPI has two fixed fallback strings, by failure
\* kind: SummaryError when the request cannot be built or sent, SummaryNone
\* when the response is not JSON or holds no candidate or a first candidate
\* without parts; the two differ.
C9_TwoFallbacks ==
    /\ SummaryError # SummaryNone
    /\ \A p \in Procs :
        pc[p] = "done" /\ payload[p].op = "summary" /\ resp[p].kind = "json" =>
            LET o == local[p].outcome
            IN  /\ o.kind \in {"build_error", "send_error"}
                       => resp[p].body.summary = SummaryError
                /\ (\/ o.kind = "not_json"
                    \/ o.kind = "json" /\ FirstCandidateText(o) = {})
                       => resp[p].body.summary = SummaryNone

\* Two failed provider calls answered with different fallbacks: one request
\* could not be sent, the other got an empty candidate list.
C9_Witness ==
    \E p, q \in Procs :
        /\ ProviderFailed(p) /\ ProviderFailed(q)
        /\ local[p].outcome.kind = "send_error"
        /\ local[q].outcome.kind = "json"
        /\ resp[p].body.summary = SummaryError
        /\ resp[q].body.summary = SummaryNone

\* Request p is a createPost, createReply or createLike call whose body was
\* decoded and in which no statement of the store failed.
ActionAnswered(p) ==
    \E op \in {"post", "reply", "like"} : Answered(p, op)

\* C11 as stated: after a createPost, createReply or createLike call that
\* references an external identifier, a users row with that uid exists.
C11_ActionCreatesUser ==
    \A p \in Procs : ActionAnswered(p) => UsersWithUID(payload[p].uid) # {}

\* C11 (amended): createPost, createReply and createLike never create a
\* users row; a call that references a uid the store does not know answers
\* 500 and the store still has no users row with that uid.
C11_ActionCreatesNoUser ==
    /\ [](\A p \in Procs :
            ActionAnswered(p) /\ UsersWithUID(payload[p].uid) = {}
                => resp[p].status = StatusInternalServerError)
    /\ [](\A p \in Procs :
            ActionAnswered(p) /\ resp[p].status = StatusOK
                => UsersWithUID(payload[p].uid) # {})
    /\ [][users' = users]_vars

\* A createPost call by the unknown u2 has been answered 500 and u2 has no
\* users row.
C11_Witness ==
    \E p \in Procs :
        /\ Answered(p, "post") /\ payload[p].uid = "u2"
        /\ resp[p].status = StatusInternalServerError
        /\ UsersWithUID("u2") = {}

\* The body of request b lacks a required field (uid, content, post_id).
Incomplete(b) ==
    /\ b.op \in {"login", "post", "reply", "like"}
    /\ \/ b.uid = ""
       \/ b.op = "post" /\ b.content = ""
       \/ b.op = "reply" /\ (b.content = <<>> \/ b.post_id = 0)
       \/ b.op = "like" /\ b.post_id = 0

\* Request p carried a body that is malformed JSON or lacks a required
\* field.
BadRequest(p) ==
    /\ payload[p].op \in {"login", "post", "reply", "like"}
    /\ "malformed" \in DOMAIN payload[p] \/ Incomplete(payload[p])

\* C12: a loginHandler, createPost, createReply or createLike request whose
\* body is malformed JSON or lacks a required field is answered with a 4xx
\* status, and its handler leaves the four tables unchanged.
C12_BadRequestRejected ==
    /\ [](\A p \in Procs : pc[p] = "done" /\ BadRequest(p)
            => resp[p].status \in 400..499)
    /\ [][\A p \in Procs : pc[p] # "idle" /\ pc'[p] # pc[p] /\ BadRequest(p)
            => store' = store]_vars

\* C13: when createPost, createReply or createLike is called with a uid
\* that resolves to no user, or the lookup itself fails, the handler ends
\* there with a 5xx answer and the store is as it was before the call.
C13_UnknownUserRejected ==
    [][\A p \in Procs :
        /\ pc[p] = "idle" /\ pc'[p] # "idle"
        /\ payload'[p].op \in {"post", "reply", "like"}
        /\ "malformed" \notin DOMAIN payload'[p]
        /\ UsersWithUID(payload'[p].uid) = {} \/ local'[p].fault
        => /\ pc'[p] = "done"
           /\ resp'[p].status \in 500..599
           /\ store' = store]_vars

\* One of the two cases has happened: a createReply call by the unknown u2,
\* or a createLike call by u1 whose lookup failed, was answered 500, and the
\* store holds the rows it started with.
C13_Witness ==
    \E p \in Procs :
        /\ pc[p] = "done" /\ resp[p].status = StatusInternalServerError
        /\ \/ payload[p] \in ReplyPayloads /\ payload[p].uid = "u2"
           \/ payload[p] \in LikePayloads /\ payload[p].uid = "u1" /\ local[p].fault
                /\ "userID" \notin DOMAIN local[p]
        /\ Len(replies) = MaxReplies - 1 /\ likes = EmptyBag

\* Request p is a like that the conflict-policy handler decoded.
ConflictLike(p) == pc[p] = "done" /\ payload[p] \in LikeConflictPayloads

\* C14: conflict-policy variant. A like is accepted (200) exactly when its
\* pair had no row and the insert did not fail otherwise; a later like for
\* the pair is answered 409; any other insert failure is answered 500 and
\* never 409; the pair has exactly one row after an accepted or conflicting
\* like, and a like that is not accepted leaves the likes table unchanged.
C14_DuplicateLikeConflicts ==
    /\ [](\A p \in Procs : ConflictLike(p) =>
            LET row == LikeRow(payload[p].user_id, payload[p].post_id)
            IN  /\ local[p].fault => resp[p].status = StatusInternalServerError
                /\ ~local[p].fault /\ ~local[p].existed =>
                       resp[p].status = StatusOK /\ CopiesIn(row, likes) = 1
                /\ ~local[p].fault /\ local[p].existed =>
                       resp[p].status = StatusConflict /\ CopiesIn(row, likes) = 1)
    /\ [][\A p \in Procs :
            pc[p] = "idle" /\ pc'[p] = "done" /\ resp'[p].status # StatusOK
                => likes' = likes]_vars

\* A like for a pair whose earlier like was accepted: it is answered 409
\* and the pair has its one row.
C14_Witness ==
    \E p \in Procs :
        /\ ConflictLike(p) /\ local[p].existed /\ ~local[p].fault
        /\ <<payload[p].user_id, payload[p].post_id>> \in acked
        /\ resp[p].status = StatusConflict
        /\ CopiesIn(LikeRow(payload[p].user_id, payload[p].post_id), likes) = 1

\* The keys of the rows of s, in order.
IDs(s) == [i \in 1..Len(s) |-> s[i].id]

\* The posts (the replies) that the log of listing p names with message msg.
LoggedPosts(p, msg) ==
    {local[p].log[i].post : i \in {j \in 1..Len(local[p].log) : local[p].log[j].msg = msg}}
LoggedReplies(p, msg) ==
    {local[p].log[i].reply : i \in {j \in 1..Len(local[p].log) : local[p].log[j].msg = msg}}

\* Listing p has sent its response.
Listed(p) == pc[p] = "done" /\ payload[p].op = "posts" /\ resp[p].kind = "json"

\* C15: the listing holds one record per post whose base row was scanned,
\* in the order of the base query; a post whose scan failed is the only one
\* left out, and the loop reads every row of the cursor.
C15_ListingSkipsFailedScan ==
    \A p \in Procs : Listed(p) =>
        LET scanned == SelectSeq(local[p].base,
                                 LAMBDA r : r.id \notin LoggedPosts(p, "post scan error"))
        IN  /\ IDs(resp[p].body.elems) = IDs(scanned)
            /\ local[p].rows = <<>>

\* The scan of the first of two posts failed: the listing holds the second
\* alone.
C15_Witness ==
    \E p \in Procs :
        /\ Listed(p) /\ Len(local[p].base) = 2
        /\ LoggedPosts(p, "post scan error") = {local[p].base[1].id}
        /\ IDs(resp[p].body.elems) = <<local[p].base[2].id>>

\* The messages of the lines getPosts logs for a failed sub-fetch of a post.
SubFetchErrors == {"like count error", "reply query error", "reply scan error"}

\* What C16 says of every record e but the content of e.replies after a
\* failed reply scan: a post whose sub-fetch failed is in the listing; likes
\* is zero when the count failed and the count otherwise; replies is empty
\* when the reply query failed.
SubFetchFailuresNonFatal(p) ==
    /\ \A m \in SubFetchErrors :
           LoggedPosts(p, m) \subseteq {resp[p].body.elems[i].id :
                                           i \in 1..Len(resp[p].body.elems)}
    /\ \A i \in 1..Len(resp[p].body.elems) :
        LET e == resp[p].body.elems[i]
        IN  /\ e.likes = IF e.id \in LoggedPosts(p, "like count error") THEN 0
                         ELSE CountLikes(e.id)
            /\ e.id \in LoggedPosts(p, "reply query error") => e.replies = Slice(<<>>)

\* The index of the first reply of rs whose scan failed in listing p, or
\* Len(rs) + 1 when none did.
FirstFailure(p, rs) ==
    LET failed == {k \in 1..Len(rs) : rs[k].id \in LoggedReplies(p, "reply scan error")}
    IN  IF failed = {} THEN Len(rs) + 1
        ELSE CHOOSE k \in failed : \A j \in failed : k <= j

\* C16 as stated: a failed sub-fetch is not fatal, and the replies of a post
\* are exactly the reply rows read before the failure.
C16_RepliesBeforeFailure ==
    \A p \in Procs : Listed(p) =>
        /\ SubFetchFailuresNonFatal(p)
        /\ \A i \in 1..Len(resp[p].body.elems) :
            LET e == resp[p].body.elems[i]
                rs == SelectReplies(e.id)
            IN  e.id \notin LoggedPosts(p, "reply query error") =>
                    IDs(e.replies.elems) = IDs(SubSeq(rs, 1, FirstFailure(p, rs) - 1))

\* C16 (amended): a failed sub-fetch is not fatal, and the replies of a post
\* are exactly the reply rows whose scan succeeded, those after a failed
\* row included.
C16_RepliesScanned ==
    \A p \in Procs : Listed(p) =>
        /\ SubFetchFailuresNonFatal(p)
        /\ \A i \in 1..Len(resp[p].body.elems) :
            LET e == resp[p].body.elems[i]
                rs == SelectReplies(e.id)
            IN  e.id \notin LoggedPosts(p, "reply query error") =>
                    IDs(e.replies.elems) =
                        IDs(SelectSeq(rs, LAMBDA r :
                                r.id \notin LoggedReplies(p, "reply scan error")))

\* A listing of two posts: for post 1, liked and replied to, the like count
\* failed and so did the scan of its first reply, and its record has likes 0
\* and the later replies; post 2 has its like.
C16_Witness ==
    \E p \in Procs :
        /\ Listed(p) /\ Len(resp[p].body.elems) = 2
        /\ LoggedPosts(p, "like count error") = {1}
        /\ LoggedReplies(p, "reply scan error") = {1}
        /\ CountLikes(1) > 0 /\ CountLikes(2) > 0
        /\ \E i, j \in 1..2 :
            /\ resp[p].body.elems[i].id = 1 /\ resp[p].body.elems[i].likes = 0
            /\ Len(resp[p].body.elems[i].replies.elems) = Len(SelectReplies(1)) - 1
            /\ Len(SelectReplies(1)) > 1
            /\ resp[p].body.elems[j].id = 2 /\ resp[p].body.elems[j].likes = CountLikes(2)

\* A users row has key userID.
UserExists(userID) == \E i \in 1..Len(users) : users[i].id = userID

\* C17: every replies row references a post and a user that exist, every
\* posts row references a user that exists, and a createReply call naming a
\* post key that does not exist is answered 5xx and adds no replies row.
C17_ReferencesExist ==
    /\ [](/\ \A i \in 1..Len(replies) :
                PostExists(replies[i].post_id) /\ UserExists(replies[i].user_id)
          /\ \A i \in 1..Len(posts) : UserExists(posts[i].user_id))
    /\ [][\A p \in Procs :
            pc[p] = "reply_insert" /\ pc'[p] # pc[p] /\ ~PostExists(payload[p].post_id)
                => resp'[p].status \in 500..599 /\ replies' = replies]_vars

\* A reply by the known u1 to post 2, which does not exist, was answered 500
\* with no statement of the store failing otherwise, and no reply was added.
C17_Witness ==
    \E p \in Procs :
        /\ Answered(p, "reply") /\ payload[p].uid = "u1"
        /\ ~PostExists(payload[p].post_id)
        /\ resp[p].status = StatusInternalServerError
        /\ Len(replies) = MaxReplies - 1

\* Table t is table u with rows added at its end: every row of t is in u,
\* at its place and as it was.
Extends(u, t) == Len(t) <= Len(u) /\ SubSeq(u, 1, Len(t)) = t

\* C18: no step modifies or deletes a row: every table keeps its rows as
\* they are and only gains rows; a login with a uid the store knows leaves
\* the users table as it is, whatever username and email it carries; and no
\* step of getPosts or summarizeReplies changes the store.
C18_RowsImmutable ==
    [][/\ Extends(users', users) /\ Extends(posts', posts) /\ Extends(replies', replies)
       /\ likes \sqsubseteq likes'
       /\ \A p \in Procs :
            /\ pc'[p] \notin {pc[p], "idle"} /\ payload'[p].op \in {"posts", "summary"}
                   => store' = store
            /\ pc[p] = "idle" /\ payload'[p] \in LoginPayloads
               /\ UsersWithUID(payload'[p].uid) # {}
                   => users' = users]_vars

\* A login of u1, whose row holds the username alice, that carried the
\* username bob was answered with u1's key, and the row still holds alice;
\* posts, replies and likes have been added meanwhile.
C18_Witness ==
    \E p \in Procs :
        /\ Succeeded(p, "login") /\ payload[p].uid = "u1" /\ payload[p].username = "bob"
        /\ resp[p].body.user_id = 1 /\ users[1].username = "alice"
        /\ Len(posts) = MaxPosts /\ Len(replies) = MaxReplies /\ likes # EmptyBag

\* A storage or provider step of request p failed: a statement of the store
\* or the scan of a row, or the call of the summary provider (the request
\* could not be built or sent, or the answer was not JSON).
StepFailed(p) ==
    \/ local[p].fault
    \/ /\ payload[p].op = "summary" /\ "outcome" \in DOMAIN local[p]
       /\ local[p].outcome.kind \in {"build_error", "send_error", "not_json"}

\* C19: a request in which a storage or provider step failed ends with an
\* error response; only a listing whose failures were all in like-count and
\* reply sub-fetches, which it logged, may end with success.
C19_FailuresReported ==
    \A p \in Procs : pc[p] = "done" /\ StepFailed(p) =>
        \/ resp[p].kind = "error" /\ resp[p].status \in 400..599
        \/ /\ Listed(p)
           /\ \A i \in 1..Len(local[p].log) : local[p].log[i].msg \in SubFetchErrors

\* The number of rows for post postID in the likes table b.
LikesIn(b, postID) ==
    LET rows == {l \in BagToSet(b) : l.post_id = postID}
    IN  BagCardinality([l \in rows |-> CopiesIn(l, b)])

\* Listing p has run its base query.
Listing(p) == payload[p].op = "posts" /\ "posts" \in DOMAIN local[p]

\* C20: whatever likes and replies are committed while a listing runs,
\* every record it has assembled (and so every record of its response)
\* reports likes between the post's like count when the request started and
\* its like count now (zero when the count query failed), and holds replies
\* that are rows of the replies table, no row twice.
C20_ListingWithinBounds ==
    \A p \in Procs : Listing(p) =>
        /\ Listed(p) => resp[p].body = local[p].posts
        /\ \A i \in 1..Len(local[p].posts.elems) :
            LET e == local[p].posts.elems[i]
                rs == e.replies.elems
            IN  /\ IF e.id \in LoggedPosts(p, "like count error") THEN e.likes = 0
                   ELSE /\ LikesIn(local[p].likes0, e.id) <= e.likes
                        /\ e.likes <= LikesIn(likes, e.id)
                /\ \A k \in 1..Len(rs) : \E j \in 1..Len(replies) : replies[j] = rs[k]
                /\ \A k, j \in 1..Len(rs) : rs[k].id = rs[j].id => k = j

\* Not a snapshot: a listing that met no failure has assembled the record
\* of a post and is still reading the next post, and a like and a reply of
\* the first post are committed already that its record does not hold.
C20_Witness ==
    \E p \in Procs :
        /\ Listing(p) /\ pc[p] \in {"posts_likes", "posts_replies"} /\ ~local[p].fault
        /\ \E i \in 1..Len(local[p].posts.elems) :
            LET e == local[p].posts.elems[i]
            IN  /\ e.likes < LikesIn(likes, e.id)
                /\ Len(e.replies.elems) < Len(SelectReplies(e.id))

\* Listings that hold their cursor.
HoldsCursor(p) == pc[p] \in {"posts_likes", "posts_replies"} /\ Borrowed(p) = 1

\* Some request is in flight, and every request in flight waits for a
\* connection.
PoolDeadlock ==
    /\ \E p \in Procs : InFlight(p)
    /\ \A p \in Procs : InFlight(p) => WaitsForConn(p)

StoredAs(b, t) ==
    \E i \in 1..Len(t) :
        /\ t[i].id = b.id /\ t[i].user_id = b.user_id /\ t[i].content = b.content
        /\ t[i].created_at = b.created_at /\ t[i].updated_at = b.updated_at

\* C22: the record createPost or createReply returns has created_at equal
\* to updated_at, and its id, owner, content and timestamps are those of
\* the stored row with that id.
C22_RecordEqualsStoredRow ==
    \A p \in Procs :
        /\ Succeeded(p, "post") =>
               /\ resp[p].body.created_at = resp[p].body.updated_at
               /\ StoredAs(resp[p].body, posts)
        /\ Succeeded(p, "reply") =>
               /\ resp[p].body.created_at = resp[p].body.updated_at
               /\ StoredAs(resp[p].body, replies)

====
